---- MODULE Spec2Model ----
(***************************************************************************)
(* litedesk-lib-active_directory: the attribute dirty-tracking and         *)
(* reconciliation engine of classes/base.py (BaseAttribute and its         *)
(* ReadOnly / WriteOnce variants, BaseObject.update_from_ad / save /       *)
(* delete, Company, User) over an LDAP directory reached through Session.  *)
(*                                                                         *)
(* Values are strings.  Python's None is the string "None", which is also  *)
(* what str.format prints for it.  A Python list value (the User preset of *)
(* objectClass) is written as its comma-joined string; on the wire and in  *)
(* the directory every attribute value is a list (sequence) of strings.    *)
(*                                                                         *)
(* Of the declared attributes the model keeps one or more of every policy  *)
(* and every attribute the methods name: object_class, distinguished_name  *)
(* (WriteOnce), object_guid (ReadOnly), s_am_account_name, given_name,     *)
(* mail, user_account_control, ou (mutable).                               *)
(***************************************************************************)
EXTENDS Integers, Sequences, FiniteSets, TLC

\* Number of distinct non-null values callers and other actors write.
MaxVal == 2
\* Number of entries the directory creates (each gets a fresh objectGUID).
MaxGuid == 2

Null == "None"

Vals == {"v" \o ToString(n) : n \in 1..MaxVal}

GuidOf(n) == "guid" \o ToString(n)

\* ------------------------------------------------------------- the schema

BaseObjectAttrs == {"object_class", "object_guid", "distinguished_name"}

CompanyAttrs == BaseObjectAttrs \cup {"ou"}

UserAttrs ==
    BaseObjectAttrs \cup
    {"s_am_account_name", "given_name", "mail", "user_account_control"}

AllAttrs == CompanyAttrs \cup UserAttrs

\* _raw_attrs: the attributes of the class, inherited ones included.
raw_attrs(cls) == IF cls = "User" THEN UserAttrs ELSE CompanyAttrs

\* BaseAttribute.ad_key of the attribute declared under local name a.
ad_key(a) ==
    CASE a = "object_class" -> "objectClass"
      [] a = "object_guid" -> "objectGUID"
      [] a = "distinguished_name" -> "distinguishedName"
      [] a = "ou" -> "ou"
      [] a = "s_am_account_name" -> "sAMAccountName"
      [] a = "given_name" -> "givenName"
      [] a = "mail" -> "mail"
      [] a = "user_account_control" -> "userAccountControl"

\* The attribute class each name is declared with.
Policy(a) ==
    CASE a \in {"object_class", "distinguished_name"} -> "WriteOnce"
      [] a = "object_guid" -> "ReadOnly"
      [] OTHER -> "Mutable"


\* The attribute a key names: _raw_set accepts the local name or the ad_key.
AttrOfKey(cls, k) == CHOOSE a \in raw_attrs(cls) : k \in {a, ad_key(a)}

USER_ACCOUNT_CONTROL_ACTIVE == "544"

UserObjectClass == "organizationalPerson,top,person,user"

CompanyObjectClass == "organizationalUnit"

\* _preset of the class, keyed by local name.
preset(cls) ==
    IF cls = "User"
    THEN [a \in {"object_class"} |-> UserObjectClass]
    ELSE [a \in {"object_class"} |-> CompanyObjectClass]

\* Session.root_dn: the bind DN from its first "DC=" on.
root_dn == "DC=example"

\* ------------------------------------------------- per-instance attribute

\* No entry for the instance in the attribute's __values.
NoValue == [has |-> FALSE, value |-> Null, modified |-> FALSE]

\* BaseAttribute.modified
modified(o, a) == o.store[a].has /\ o.store[a].modified

\* BaseAttribute.getter
getter(o, a) == IF o.store[a].has THEN o.store[a].value ELSE Null

\* BaseAttribute.raw_set
raw_set(o, a, v, m) ==
    [o EXCEPT !.store[a] = [has |-> TRUE, value |-> v, modified |-> m]]

\* The outcome of a setter: the instance after it and what it raised.
Returned(o) == [obj |-> o, raised |-> "none"]

Raised(o, e) == [obj |-> o, raised |-> e]

\* BaseAttribute.setter: modified is True only if the instance already has
\* an entry for the attribute.
BaseAttribute_setter(o, a, v) ==
    Returned(raw_set(o, a, v, o.store[a].has))

\* A ReadOnly setter that stores the value like any other.
ReadOnlyAttribute_setter_Stores(o, a, v) == BaseAttribute_setter(o, a, v)

\* ReadOnlyAttribute.setter
ReadOnlyAttribute_setter(o, a, v) == Raised(o, "UNWILLING_TO_PERFORM")

\* WriteOnceAttribute.setter
WriteOnceAttribute_setter(o, a, v) ==
    IF modified(o, a)
    THEN Raised(o, "UNWILLING_TO_PERFORM")
    ELSE BaseAttribute_setter(o, a, v)

\* Assignment o.a = v: the setter of the attribute's class.
setter(o, a, v) ==
    CASE Policy(a) = "ReadOnly" -> ReadOnlyAttribute_setter(o, a, v)
      [] Policy(a) = "WriteOnce" -> WriteOnceAttribute_setter(o, a, v)
      [] OTHER -> BaseAttribute_setter(o, a, v)

\* A change set of every attribute that has a value, edited or not.
moddict_All(o) ==
    [k \in {ad_key(a) : a \in {b \in DOMAIN o.store :
                /\ getter(o, b) # Null
                /\ b \notin {"object_guid", "distinguished_name"}}} |->
        getter(o, AttrOfKey(o.cls, k))]

\* _moddict: ad_key -> value of the attributes flagged modified.
moddict(o) ==
    [k \in {ad_key(a) : a \in {b \in DOMAIN o.store : modified(o, b)}} |->
        getter(o, AttrOfKey(o.cls, k))]

\* ----------------------------------------------------------- construction

\* _raw_update: every given field is stored unmodified, no policy consulted;
\* parent is kept on the instance itself.
raw_update(o, fields) ==
    [o EXCEPT !.store =
        [a \in DOMAIN o.store |->
            IF \E k \in DOMAIN fields : k \in {a, ad_key(a)}
            THEN [has |-> TRUE,
                  value |-> fields[CHOOSE k \in DOMAIN fields : k \in {a, ad_key(a)}],
                  modified |-> FALSE]
            ELSE o.store[a]]]

\* BaseObject.__init__: the caller's fields first, the preset after them.
\* parent stands for the parent object; it is the parent's
\* distinguished_name, or Null when no parent was given.
init(cls, parent, fields) ==
    raw_update(
        raw_update(
            [cls |-> cls, parent |-> parent,
             store |-> [a \in raw_attrs(cls) |-> NoValue]],
            fields),
        preset(cls))

\* ---------------------------------------------------------- the directory

\* The organizational unit the tests create in setUp, parent of the users.
CompanyOu == "eng"

\* Company._distinguished_name of that unit.
CompanyDN == "OU=" \o CompanyOu \o "," \o root_dn

\* The ou values callers construct a Company with.
CompanyOus == {CompanyOu, "ops"}

Sam == "jdoe"

AllKeys == {ad_key(a) : a \in AllAttrs}

\* Python list values, by their written form.
ListOf(v) ==
    IF v = UserObjectClass
    THEN <<"organizationalPerson", "top", "person", "user">>
    ELSE <<v>>

\* The value list python-ldap sends for a str or a list of str.
Wire(v) == ListOf(v)

RECURSIVE Join(_)
Join(l) ==
    IF Len(l) = 0 THEN ""
    ELSE IF Len(l) = 1 THEN l[1]
    ELSE l[1] \o "," \o Join(Tail(l))

\* search: "value[0] if len(value) == 1 and isinstance(value, list) else
\* value"; a longer list stays a list.
Collapse(l) == IF Len(l) = 1 THEN l[1] ELSE Join(l)

\* The objectClass list the directory stores: the class chain, top first.
ServerObjectClass(sent) ==
    IF "organizationalUnit" \in {sent[j] : j \in 1..Len(sent)}
    THEN <<"top", "organizationalUnit">>
    ELSE IF "user" \in {sent[j] : j \in 1..Len(sent)}
    THEN <<"top", "person", "organizationalPerson", "user">>
    ELSE sent

\* Attributes only the directory writes.
ServerOwnedKeys == {"objectGUID"}

\* userAccountControl of an account created without one: disabled.
DefaultUserAccountControl == "546"

\* The userAccountControl of an account another actor has disabled.
DisabledUserAccountControl == "514"

\* The container a distinguished name lies in.
ParentDN(dn) ==
    IF \E p \in {root_dn, CompanyDN}, t \in {"CN=", "OU="},
          n \in {Sam, Null} \cup CompanyOus : dn = t \o n \o "," \o p
    THEN CHOOSE p \in {root_dn, CompanyDN} :
            \E t \in {"CN=", "OU="}, n \in {Sam, Null} \cup CompanyOus :
                dn = t \o n \o "," \o p
    ELSE Null

\* The request gives an organizational unit an ou other than the one its
\* distinguished name begins with.
RenamesOu(dn, modlist) ==
    /\ "ou" \in DOMAIN modlist
    /\ \E v \in CompanyOus \cup {Null} :
           dn = "OU=" \o v \o "," \o root_dn /\ modlist["ou"] # v

\* The entry add_s creates: what was sent, plus what the directory assigns.
NewEntry(dn, modlist, n) ==
    [k \in AllKeys |->
        CASE k = "objectGUID" -> <<GuidOf(n)>>
          [] k = "distinguishedName" -> <<dn>>
          [] k = "objectClass" -> ServerObjectClass(Wire(modlist[k]))
          [] k = "userAccountControl" /\ k \notin DOMAIN modlist
               /\ "user" \in {Wire(modlist["objectClass"])[j] :
                                 j \in 1..Len(Wire(modlist["objectClass"]))} ->
               <<DefaultUserAccountControl>>
          [] OTHER -> IF k \in DOMAIN modlist THEN Wire(modlist[k]) ELSE <<>>]

\* What add_s(dn, modlist) raises ("none": it succeeds).
add_error(d, dn, modlist, up) ==
    IF ~up THEN "SERVER_DOWN"
    ELSE IF \E k \in DOMAIN modlist : modlist[k] = Null THEN "TypeError"
    ELSE IF dn \in DOMAIN d THEN "ALREADY_EXISTS"
    ELSE IF ParentDN(dn) # root_dn /\ ParentDN(dn) \notin DOMAIN d
    THEN "NO_SUCH_OBJECT"
    ELSE IF "objectClass" \notin DOMAIN modlist THEN "OBJECT_CLASS_VIOLATION"
    ELSE IF DOMAIN modlist \cap ServerOwnedKeys # {} THEN "UNWILLING_TO_PERFORM"
    ELSE IF RenamesOu(dn, modlist) THEN "NAMING_VIOLATION"
    ELSE "none"

\* The directory after a successful add_s.
add_s(d, dn, modlist, n) ==
    [x \in DOMAIN d \cup {dn} |->
        IF x = dn THEN NewEntry(dn, modlist, n) ELSE d[x]]

\* What modify_s(dn, [(MOD_REPLACE, key, value), ...]) raises.
modify_error(d, dn, modlist, up) ==
    IF ~up THEN "SERVER_DOWN"
    ELSE IF \E k \in DOMAIN modlist : modlist[k] = Null THEN "TypeError"
    ELSE IF dn \notin DOMAIN d THEN "NO_SUCH_OBJECT"
    ELSE IF DOMAIN modlist \cap ServerOwnedKeys # {} THEN "UNWILLING_TO_PERFORM"
    ELSE IF RenamesOu(dn, modlist) THEN "NOT_ALLOWED_ON_RDN"
    ELSE "none"

\* The directory after a successful modify_s: the listed keys replaced.
modify_s(d, dn, modlist) ==
    [d EXCEPT ![dn] =
        [k \in AllKeys |->
            IF k \in DOMAIN modlist THEN Wire(modlist[k]) ELSE d[dn][k]]]

\* The directory after a successful delete_s.
delete_s(d, dn) == [x \in DOMAIN d \ {dn} |-> d[x]]

\* The class term of _base_search_query (every entry has instanceType 4 and
\* none is a critical system object).
base_search_query(cls, e) ==
    IF cls = "User"
    THEN "organizationalPerson" \in {e["objectClass"][j] : j \in 1..Len(e["objectClass"])}
    ELSE "organizationalUnit" \in {e["objectClass"][j] : j \in 1..Len(e["objectClass"])}

\* search_st(base, SCOPE_SUBTREE, query): the distinguished names under base
\* whose entry satisfies every key=value term of query.
search_st(d, base, cls, query) ==
    {dn \in DOMAIN d :
        /\ base = root_dn \/ dn = base \/ ParentDN(dn) = base
        /\ base_search_query(cls, d[dn])
        /\ \A k \in DOMAIN query : query[k] \in {d[dn][k][j] : j \in 1..Len(d[dn][k])}}

\* The keyword arguments search builds from an entry: the attributes the
\* entry holds, single values collapsed.
EntryFields(e) ==
    [k \in {x \in DOMAIN e : e[x] # <<>>} |-> Collapse(e[k])]

\* BaseObject.search: one instance of cls per entry found.
search(cls, d, base, query) ==
    {init(cls, Null, EntryFields(d[dn])) : dn \in search_st(d, base, cls, query)}

\* ------------------------------------------------------------ reconciliation

\* A diff that reports only the attributes the first instance has a value
\* for.
diff_LocalOnly(self, other) ==
    [k \in {ad_key(a) : a \in {b \in raw_attrs(self.cls) :
                                  /\ getter(self, b) # Null
                                  /\ getter(self, b) # getter(other, b)}} |->
        [self |-> [value |-> getter(self, AttrOfKey(self.cls, k)),
                   modified |-> modified(self, AttrOfKey(self.cls, k))],
         other |-> [value |-> getter(other, AttrOfKey(self.cls, k)),
                    modified |-> modified(other, AttrOfKey(self.cls, k))]]]

\* BaseObject.diff: a record per ad_key whose values differ, holding both
\* values and both modified flags.
diff(self, other) ==
    [k \in {ad_key(a) : a \in {b \in raw_attrs(self.cls) :
                                  getter(self, b) # getter(other, b)}} |->
        [self |-> [value |-> getter(self, AttrOfKey(self.cls, k)),
                   modified |-> modified(self, AttrOfKey(self.cls, k))],
         other |-> [value |-> getter(other, AttrOfKey(self.cls, k)),
                    modified |-> modified(other, AttrOfKey(self.cls, k))]]]

\* A reset loop that leaves the flags as they are.
ClearModified_KeepsFlags(o) ==
    [o EXCEPT !.store =
        [a \in DOMAIN o.store |->
            [has |-> TRUE, value |-> getter(o, a), modified |-> modified(o, a)]]]

\* "for attr in self._raw_attrs: self._raw_set(attr.name, attr.getter(self),
\* False)": every attribute gets an entry, flagged unmodified.
ClearModified(o) ==
    [o EXCEPT !.store =
        [a \in DOMAIN o.store |->
            [has |-> TRUE, value |-> getter(o, a), modified |-> FALSE]]]

\* A merge that takes the remote value only where the local one is None.
Resolve_LocalFirst(cur, rec) ==
    IF rec.self.value # Null
    THEN [has |-> TRUE, value |-> rec.self.value, modified |-> TRUE]
    ELSE IF rec.other.value # Null
    THEN [has |-> TRUE, value |-> rec.other.value, modified |-> FALSE]
    ELSE cur

\* A merge that flags the remote value it adopts as a local edit.
Resolve_MarksAdopted(cur, rec) ==
    IF ~rec.self.modified /\ rec.other.value # Null
    THEN [has |-> TRUE, value |-> rec.other.value, modified |-> TRUE]
    ELSE IF rec.self.value # Null
    THEN [has |-> TRUE, value |-> rec.self.value, modified |-> TRUE]
    ELSE cur

\* The branch update_from_ad takes for one record of the diff.
Resolve(cur, rec) ==
    IF ~rec.self.modified /\ rec.other.value # Null
    THEN [has |-> TRUE, value |-> rec.other.value, modified |-> FALSE]
    ELSE IF rec.self.value # Null
    THEN [has |-> TRUE, value |-> rec.self.value, modified |-> TRUE]
    ELSE cur

\* BaseObject.update_from_ad: ok is its return value.  The query names one
\* distinguished name, so the search finds one entry or none.
update_from_ad(o, d) ==
    LET found == search(o.cls, d, root_dn,
                        [k \in {"distinguishedName"} |->
                            getter(o, "distinguished_name")])
    IN  IF found = {}
        THEN [ok |-> FALSE, obj |-> o]
        ELSE LET other == CHOOSE x \in found : TRUE
                 df == diff(o, other)
                 cleared == ClearModified(o)
             IN  [ok |-> TRUE,
                  obj |-> [cleared EXCEPT !.store =
                      [a \in DOMAIN o.store |->
                          IF ad_key(a) \in DOMAIN df
                          THEN Resolve(cleared.store[a], df[ad_key(a)])
                          ELSE cleared.store[a]]]]

\* ------------------------------------------------------------- persistence

\* save, create path: every non-null attribute but distinguished_name is
\* flagged modified.
MarkAllModified(o) ==
    [o EXCEPT !.store =
        [a \in DOMAIN o.store |->
            IF a # "distinguished_name" /\ getter(o, a) # Null
            THEN [has |-> TRUE, value |-> getter(o, a), modified |-> TRUE]
            ELSE o.store[a]]]

\* The instance save builds its request from.
Reconciled(o, d) ==
    IF update_from_ad(o, d).ok THEN update_from_ad(o, d).obj
    ELSE MarkAllModified(o)

\* "if self.object_guid is None": add_s, else modify_s.
RequestOp(o) == IF getter(o, "object_guid") = Null THEN "add" ELSE "modify"

\* The one request save issues.
Request(o) ==
    [op |-> RequestOp(o),
     dn |-> getter(o, "distinguished_name"),
     modlist |-> moddict(o)]

\* A save that clears the flags when its request is rejected too.
Persist_ClearsOnFailure(o1, d, n, up) ==
    LET req == Request(o1)
        err == IF req.op = "add"
               THEN add_error(d, req.dn, req.modlist, up)
               ELSE modify_error(d, req.dn, req.modlist, up)
        d1 == IF req.op = "add"
              THEN add_s(d, req.dn, req.modlist, n)
              ELSE modify_s(d, req.dn, req.modlist)
    IN  IF err # "none"
        THEN [obj |-> ClearModified(o1), dir |-> d, guid |-> n,
              reqs |-> <<req>>, raised |-> err]
        ELSE [obj |-> update_from_ad(ClearModified(o1), d1).obj,
              dir |-> d1,
              guid |-> IF req.op = "add" THEN n + 1 ELSE n,
              reqs |-> <<req>>,
              raised |-> "none"]

\* A save that clears the flags after the request and does not reconcile
\* again.
Persist_NoResync(o1, d, n, up) ==
    LET req == Request(o1)
        err == IF req.op = "add"
               THEN add_error(d, req.dn, req.modlist, up)
               ELSE modify_error(d, req.dn, req.modlist, up)
        d1 == IF req.op = "add"
              THEN add_s(d, req.dn, req.modlist, n)
              ELSE modify_s(d, req.dn, req.modlist)
    IN  IF err # "none"
        THEN [obj |-> o1, dir |-> d, guid |-> n, reqs |-> <<req>>,
              raised |-> err]
        ELSE [obj |-> ClearModified(o1),
              dir |-> d1,
              guid |-> IF req.op = "add" THEN n + 1 ELSE n,
              reqs |-> <<req>>,
              raised |-> "none"]

\* save from the request on, o1 being the reconciled instance.  up: the
\* connection carries the request.  n: the next objectGUID the directory
\* assigns.
Persist(o1, d, n, up) ==
    LET req == Request(o1)
        err == IF req.op = "add"
               THEN add_error(d, req.dn, req.modlist, up)
               ELSE modify_error(d, req.dn, req.modlist, up)
        d1 == IF req.op = "add"
              THEN add_s(d, req.dn, req.modlist, n)
              ELSE modify_s(d, req.dn, req.modlist)
    IN  IF err # "none"
        THEN [obj |-> o1, dir |-> d, guid |-> n, reqs |-> <<req>>,
              raised |-> err]
        ELSE [obj |-> update_from_ad(ClearModified(o1), d1).obj,
              dir |-> d1,
              guid |-> IF req.op = "add" THEN n + 1 ELSE n,
              reqs |-> <<req>>,
              raised |-> "none"]

\* A save that sends nothing when no attribute is flagged modified.
BaseObject_save_SkipsEmpty(o, d, n, up) ==
    IF DOMAIN moddict(Reconciled(o, d)) = {}
    THEN [obj |-> Reconciled(o, d), dir |-> d, guid |-> n, reqs |-> <<>>,
          raised |-> "none"]
    ELSE Persist(Reconciled(o, d), d, n, up)

\* BaseObject.save
BaseObject_save(o, d, n, up) == Persist(Reconciled(o, d), d, n, up)

\* An exception before BaseObject.save is entered.
SaveRaised(o, d, n, e) ==
    [obj |-> o, dir |-> d, guid |-> n, reqs |-> <<>>, raised |-> e]

\* A distinguished name built the way User builds its own.
Company_distinguished_name_AsUser(o) ==
    "CN=" \o getter(o, "ou") \o "," \o root_dn

\* Company._distinguished_name
Company_distinguished_name(o) ==
    "OU=" \o getter(o, "ou") \o "," \o root_dn

\* User._distinguished_name
User_distinguished_name(o) ==
    "CN=" \o getter(o, "s_am_account_name") \o "," \o o.parent

\* "if not self.distinguished_name": None and the empty string.
NoDistinguishedName(o) == getter(o, "distinguished_name") \in {Null, ""}

\* Company.save
Company_save(o, d, n, up) ==
    LET s == IF NoDistinguishedName(o)
             THEN setter(o, "distinguished_name", Company_distinguished_name(o))
             ELSE Returned(o)
    IN  IF s.raised # "none" THEN SaveRaised(o, d, n, s.raised)
        ELSE BaseObject_save(s.obj, d, n, up)

\* "if not self.is_activated: self.activate()"
Activated(o) ==
    IF getter(o, "user_account_control") = USER_ACCOUNT_CONTROL_ACTIVE
    THEN o
    ELSE setter(o, "user_account_control", USER_ACCOUNT_CONTROL_ACTIVE).obj

\* User.save
User_save(o, d, n, up) ==
    LET s == IF ~NoDistinguishedName(o) THEN Returned(o)
             ELSE IF o.parent = Null THEN Raised(o, "AttributeError")
             ELSE setter(o, "distinguished_name", User_distinguished_name(o))
    IN  IF s.raised # "none" THEN SaveRaised(o, d, n, s.raised)
        ELSE BaseObject_save(Activated(s.obj), d, n, up)

\* o.save(), by the class of o.
save(o, d, n, up) ==
    IF o.cls = "User" THEN User_save(o, d, n, up) ELSE Company_save(o, d, n, up)

\* What delete_s(dn) raises.
delete_error(d, dn, up) ==
    IF ~up THEN "SERVER_DOWN"
    ELSE IF dn \notin DOMAIN d THEN "NO_SUCH_OBJECT"
    ELSE IF \E x \in DOMAIN d : ParentDN(x) = dn THEN "NOT_ALLOWED_ON_NONLEAF"
    ELSE "none"

\* ------------------------------------------------------------------ state

\* The instances the callers hold.
Insts == {"i1"}

\* objs: the instance each caller holds (NoObj before it constructs one).
\* dir: the directory, distinguished name -> entry.
\* nextGuid: the number of the next objectGUID the directory assigns.
\* last: the last call: the operation, the instance and the attribute it was
\*   made on, what it raised ("none" when it returned), the add / modify /
\*   delete requests it issued, and the attributes whose value update_from_ad
\*   or save replaced on the instance; and, when the call directly follows
\*   a save that returned, the instance and the request of that save
\*   (for a save also when it follows a save whose request was rejected).
\*   After a call of diff it also holds the records diff returned (out).
\* assigned: the WriteOnce attributes assigned through their setter since
\*   the instance was constructed.
VARIABLES objs, dir, nextGuid, last, assigned

vars == <<objs, dir, nextGuid, last, assigned>>

NoObj == [cls |-> "none"]

NoCall == [inst |-> "none", op |-> "none"]

\* The save the next call directly follows, if the last call is one that
\* returned.
Returning ==
    IF last.op = "save" /\ last.raised = "none"
    THEN [inst |-> last.inst, op |-> last.reqs[1].op]
    ELSE NoCall

\* The save a save directly follows: one that returned, or one whose request
\* was rejected.
Preceding ==
    IF last.op = "save" /\ last.raised # "none" /\ last.reqs # <<>>
    THEN [inst |-> last.inst, op |-> last.reqs[1].op \o " rejected"]
    ELSE Returning

Did(op, i, a, raised, reqs, replaced) ==
    [op |-> op, inst |-> i, attr |-> a, raised |-> raised, reqs |-> reqs,
     replaced |-> replaced, after |-> Returning]

\* The attributes whose value differs between o and p.
Replaced(o, p) == {a \in DOMAIN o.store : getter(o, a) # getter(p, a)}

\* The directory after CommonTest / UserTestCase.setUp: the company exists.
CompanyEntry ==
    [k \in AllKeys |->
        CASE k = "objectGUID" -> <<GuidOf(0)>>
          [] k = "distinguishedName" -> <<CompanyDN>>
          [] k = "objectClass" -> <<"top", "organizationalUnit">>
          [] k = "ou" -> <<CompanyOu>>
          [] OTHER -> <<>>]

Init ==
    /\ objs = [i \in Insts |-> NoObj]
    /\ dir = [dn \in {CompanyDN} |-> CompanyEntry]
    /\ nextGuid = 1
    /\ last = [op |-> "none", inst |-> "none", attr |-> "none",
               raised |-> "none", reqs |-> <<>>, replaced |-> {},
               after |-> NoCall]
    /\ assigned = [i \in Insts |-> {}]

\* The distinguished name of the user the callers work on.
UserDN == "CN=" \o Sam \o "," \o CompanyDN

WriteOnceAttrs == {a \in AllAttrs : Policy(a) = "WriteOnce"}

\* ---------------------------------------------------------------- actions

\* User(session, parent=company, **fields): a new instance replaces the one
\* the caller held.
Construct(i, parent, fields) ==
    /\ objs' = [objs EXCEPT ![i] = init("User", parent, fields)]
    /\ assigned' = [assigned EXCEPT ![i] = {}]
    /\ last' = Did("construct", i, "none", "none", <<>>, {})
    /\ UNCHANGED <<dir, nextGuid>>

\* Company(session, **fields)
ConstructCompany(i, fields) ==
    /\ objs' = [objs EXCEPT ![i] = init("Company", Null, fields)]
    /\ assigned' = [assigned EXCEPT ![i] = {}]
    /\ last' = Did("construct", i, "none", "none", <<>>, {})
    /\ UNCHANGED <<dir, nextGuid>>

\* instance.a = v
Assign(i, a, v) ==
    /\ objs[i] # NoObj
    /\ a \in raw_attrs(objs[i].cls)
    /\ objs' = [objs EXCEPT ![i] = setter(objs[i], a, v).obj]
    /\ assigned' = [assigned EXCEPT ![i] =
                      IF setter(objs[i], a, v).raised = "none"
                      THEN @ \cup ({a} \cap WriteOnceAttrs) ELSE @]
    /\ last' = Did("set", i, a, setter(objs[i], a, v).raised, <<>>, {})
    /\ UNCHANGED <<dir, nextGuid>>

\* instance.a: the getter changes nothing.
Read(i, a) ==
    /\ objs[i] # NoObj
    /\ a \in raw_attrs(objs[i].cls)
    /\ getter(objs[i], a) \in STRING
    /\ UNCHANGED vars

\* instance.update_from_ad()
UpdateFromAd(i) ==
    /\ objs[i] # NoObj
    /\ objs' = [objs EXCEPT ![i] = update_from_ad(objs[i], dir).obj]
    /\ last' = Did("update_from_ad", i, "none", "none", <<>>,
                   Replaced(objs[i], update_from_ad(objs[i], dir).obj))
    /\ UNCHANGED <<dir, nextGuid, assigned>>

\* The WriteOnce attribute save assigns through its setter before it
\* reconciles.
SaveAssigns(o, r) ==
    IF NoDistinguishedName(o) /\ (r.reqs # <<>> \/ r.raised = "none")
    THEN {"distinguished_name"} ELSE {}

\* instance.save()
Save(i, up) ==
    /\ objs[i] # NoObj
    /\ \E r \in {save(objs[i], dir, nextGuid, up)} :
           /\ r.guid <= MaxGuid + 1
           /\ objs' = [objs EXCEPT ![i] = r.obj]
           /\ dir' = r.dir
           /\ nextGuid' = r.guid
           /\ assigned' = [assigned EXCEPT ![i] = @ \cup SaveAssigns(objs[i], r)]
           /\ last' = [Did("save", i, "none", r.raised, r.reqs,
                           Replaced(objs[i], r.obj))
                          EXCEPT !.after = Preceding]

\* A delete that issues its request and leaves the entry in the directory.
Delete_KeepsEntry(i, up) ==
    /\ objs[i] # NoObj
    /\ \E dn \in {getter(objs[i], "distinguished_name")} :
           /\ dir' = dir
           /\ last' = Did("delete", i, "none", delete_error(dir, dn, up),
                          <<[op |-> "delete", dn |-> dn, modlist |-> <<>>]>>, {})
    /\ UNCHANGED <<objs, nextGuid, assigned>>

\* BaseObject.delete
Delete(i, up) ==
    /\ objs[i] # NoObj
    /\ \E dn \in {getter(objs[i], "distinguished_name")} :
           /\ dir' = IF delete_error(dir, dn, up) = "none"
                     THEN delete_s(dir, dn) ELSE dir
           /\ last' = Did("delete", i, "none", delete_error(dir, dn, up),
                          <<[op |-> "delete", dn |-> dn, modlist |-> <<>>]>>, {})
    /\ UNCHANGED <<objs, nextGuid, assigned>>

\* instance.diff(b): the call returns its records (out) and assigns nothing.
Diff(i, b) ==
    /\ objs[i] # NoObj
    /\ last' = [op |-> "diff", inst |-> i, attr |-> "none", raised |-> "none",
                reqs |-> <<>>, replaced |-> {}, after |-> Returning,
                out |-> diff(objs[i], b)]
    /\ UNCHANGED <<objs, dir, nextGuid, assigned>>

\* Another actor replaces or removes one attribute of the user's entry.
RemoteModify(k, l) ==
    /\ UserDN \in DOMAIN dir
    /\ dir[UserDN][k] # l
    /\ dir' = [dir EXCEPT ![UserDN][k] = l]
    /\ last' = Did("remote", "none", k, "none", <<>>, {})
    /\ UNCHANGED <<objs, nextGuid, assigned>>

\* Another actor deletes the user's entry.
RemoteDelete ==
    /\ UserDN \in DOMAIN dir
    /\ dir' = delete_s(dir, UserDN)
    /\ last' = Did("remote", "none", "none", "none", <<>>, {})
    /\ UNCHANGED <<objs, nextGuid, assigned>>

\* ------------------------------------------------- the user's life cycle

\* The keyword arguments callers construct a User with.
UserFields ==
    {[a \in {"s_am_account_name"} |-> Sam],
     [a \in {"s_am_account_name", "distinguished_name"} |->
        IF a = "s_am_account_name" THEN Sam ELSE UserDN]}
    \cup {[a \in {"s_am_account_name", "given_name", "mail"} |->
            IF a = "s_am_account_name" THEN Sam ELSE v] : v \in Vals}

\* The attributes callers edit and the values they assign.
EditedAttrs == {"given_name", "mail"}

EditValues == Vals \cup {Null}

\* The keys another actor writes and the values (<<>> removes the key).
RemoteKeys == {"givenName", "mail"}

RemoteValues == {<<v>> : v \in Vals} \cup {<<>>}

Next ==
    \/ \E i \in Insts, f \in UserFields : Construct(i, CompanyDN, f)
    \/ \E i \in Insts, a \in EditedAttrs, v \in EditValues : Assign(i, a, v)
    \/ \E i \in Insts, a \in UserAttrs : Read(i, a)
    \/ \E i \in Insts : UpdateFromAd(i)
    \/ \E i \in Insts, up \in BOOLEAN : Save(i, up)
    \/ \E i \in Insts, up \in BOOLEAN : Delete(i, up)
    \/ \E k \in RemoteKeys, l \in RemoteValues : RemoteModify(k, l)
    \/ RemoteDelete

Spec == Init /\ [][Next]_vars

\* ------------------------------------------- assignments of every policy
\*
\* Callers assign attributes of each policy (Mutable, WriteOnce, ReadOnly),
\* and another actor rewrites the mail or disables the account.

\* The values callers assign to an attribute of each policy.
AssignValues(a) ==
    CASE a = "mail" -> {"v1", Null}
      [] a = "user_account_control" -> {"512"}
      [] a = "distinguished_name" -> {UserDN}
      [] a = "object_class" -> {UserObjectClass}
      [] a = "object_guid" -> {GuidOf(0)}
      [] OTHER -> {}

PolicyNext ==
    \/ \E i \in Insts, f \in UserFields : Construct(i, CompanyDN, f)
    \/ \E i \in Insts, a \in UserAttrs : \E v \in AssignValues(a) : Assign(i, a, v)
    \/ \E i \in Insts, a \in UserAttrs : Read(i, a)
    \/ \E i \in Insts : UpdateFromAd(i)
    \/ \E i \in Insts, up \in BOOLEAN : Save(i, up)
    \/ \E l \in {<<"v2">>} : RemoteModify("mail", l)
    \/ RemoteModify("userAccountControl", <<DisabledUserAccountControl>>)

PolicySpec == Init /\ [][PolicyNext]_vars

\* ---------------------------------------------- organizational units
\*
\* Callers construct, save and delete companies, and users under the
\* company of setUp.

\* The keyword arguments callers construct a Company with.
CompanyFields ==
    {[a \in {"ou"} |-> v] : v \in CompanyOus}
    \cup {[a \in {"ou", "distinguished_name"} |->
             IF a = "ou" THEN CompanyOu ELSE CompanyDN]}

CompanyNext ==
    \/ \E i \in Insts, f \in CompanyFields : ConstructCompany(i, f)
    \/ \E i \in Insts : Construct(i, CompanyDN, [a \in {"s_am_account_name"} |-> Sam])
    \/ \E i \in Insts, v \in CompanyOus : Assign(i, "ou", v)
    \/ \E i \in Insts, a \in AllAttrs : Read(i, a)
    \/ \E i \in Insts : UpdateFromAd(i)
    \/ \E i \in Insts, up \in BOOLEAN : Save(i, up)
    \/ \E i \in Insts, up \in BOOLEAN : Delete(i, up)

CompanySpec == Init /\ [][CompanyNext]_vars

\* --------------------------------------------------------- construction
\*
\* Callers construct users with fields of every policy, one of them the
\* attribute the type presets.

\* The keyword arguments callers construct a User with, among them a value
\* for the ReadOnly object_guid and one for the preset object_class.
ConstructionFields ==
    UserFields
    \cup {[a \in {"s_am_account_name", "object_guid"} |->
             IF a = "s_am_account_name" THEN Sam ELSE GuidOf(0)],
          [a \in {"s_am_account_name", "object_class"} |->
             IF a = "s_am_account_name" THEN Sam ELSE "user"]}

ConstructionNext ==
    \/ \E i \in Insts, f \in ConstructionFields : Construct(i, CompanyDN, f)
    \/ \E i \in Insts, v \in Vals : Assign(i, "given_name", v)
    \/ \E i \in Insts, a \in UserAttrs : Read(i, a)
    \/ \E i \in Insts : UpdateFromAd(i)
    \/ \E i \in Insts, up \in BOOLEAN : Save(i, up)

ConstructionSpec == Init /\ [][ConstructionNext]_vars

\* ------------------------------------------------------------------ diff
\*
\* Callers compare the instance they hold with itself, with the instance
\* search builds from its entry, and with newly constructed ones.

\* The keyword arguments of the users compared.
DiffFields ==
    {[a \in {"s_am_account_name"} |-> Sam],
     [a \in {"s_am_account_name", "given_name", "mail"} |->
        IF a = "s_am_account_name" THEN Sam ELSE "v1"]}

\* The instances instance o is compared with.
DiffOperands(o, d) ==
    IF o = NoObj THEN {}
    ELSE {o}
         \cup search(o.cls, d, root_dn,
                     [k \in {"distinguishedName"} |->
                         getter(o, "distinguished_name")])
         \cup {init("User", CompanyDN, f) : f \in DiffFields}

DiffNext ==
    \/ \E i \in Insts, f \in DiffFields : Construct(i, CompanyDN, f)
    \/ \E i \in Insts, v \in {"v2", Null} : Assign(i, "given_name", v)
    \/ \E i \in Insts, a \in UserAttrs : Read(i, a)
    \/ \E i \in Insts : UpdateFromAd(i)
    \/ \E i \in Insts : Save(i, TRUE)
    \/ RemoteModify("mail", <<>>)
    \/ \E i \in Insts : \E b \in DiffOperands(objs[i], dir) : Diff(i, b)

DiffSpec == Init /\ [][DiffNext]_vars

\* ------------------------------------------------------------- properties

\* The instance update_from_ad's search constructs for o ("other"), in a set:
\* empty when the directory has no counterpart.
Counterpart(o, d) ==
    search(o.cls, d, root_dn,
           [k \in {"distinguishedName"} |-> getter(o, "distinguished_name")])

\* The remote value of attribute a as the instance sees it (Null: none).
RemoteValue(o, d, a) ==
    IF Counterpart(o, d) = {} THEN Null
    ELSE getter(CHOOSE x \in Counterpart(o, d) : TRUE, a)

MutableAttrs == {a \in AllAttrs : Policy(a) = "Mutable"}

ReadOnlyAttrs == {a \in AllAttrs : Policy(a) = "ReadOnly"}

\* The step is a call of op on instance i.
Calls(op, i) == last'.op = op /\ last'.inst = i

\* The call before this step was op on instance i.
Called(op, i) == last.op = op /\ last.inst = i

\* C1: local-edit precedence.  When local code has just assigned a non-null
\* value to a mutable attribute X (on any instance, X assigned before or
\* not) and the remote record holds another non-null value for X, then
\* update_from_ad leaves the assigned value in X and X flagged modified.
C1_LocalEditPrecedence ==
    [][\A i \in Insts, a \in MutableAttrs :
        ( /\ Called("set", i) /\ last.attr = a /\ last.raised = "none"
          /\ getter(objs[i], a) # Null
          /\ RemoteValue(objs[i], dir, a) \notin {Null, getter(objs[i], a)}
          /\ Calls("update_from_ad", i) )
        => /\ getter(objs'[i], a) = getter(objs[i], a)
           /\ modified(objs'[i], a)]_vars

\* C9: set marks modified.  Every set of a mutable attribute that returns
\* stores the assigned value and leaves the attribute flagged modified,
\* whatever the instance held before; reading an attribute changes no value
\* and no flag.
C9_SetMarksModified ==
    [][\A i \in Insts, a \in MutableAttrs, v \in Vals \cup {Null, "512"} :
        /\ (Assign(i, a, v) /\ last'.raised = "none")
            => getter(objs'[i], a) = v /\ modified(objs'[i], a)
        /\ Read(i, a) => objs' = objs]_vars

\* The value and the modified flag of every attribute of the instance.
Visible(o) ==
    [a \in DOMAIN o.store |->
        [value |-> getter(o, a), modified |-> modified(o, a)]]

\* C3: reconciliation idempotence.  A call of update_from_ad that directly
\* follows another one on the same instance (no local edit, no remote change
\* in between) leaves every attribute's value and modified flag as the first
\* call left them.
C3_ReconcileIdempotent ==
    [][\A i \in Insts :
        (Called("update_from_ad", i) /\ Calls("update_from_ad", i))
        => Visible(objs'[i]) = Visible(objs[i])]_vars

\* C4: a failed save leaves local state untouched.  When the add or modify
\* request save issued fails, every attribute of the instance has the value
\* and the modified flag it had before save was called.
C4_FailedSaveUntouched ==
    [][\A i \in Insts :
        (Calls("save", i) /\ last'.reqs # <<>> /\ last'.raised # "none")
        => Visible(objs'[i]) = Visible(objs[i])]_vars

\* C5: create versus update.  The request save issues is an add exactly when
\* the directory holds no entry under the request's distinguished name when
\* save is called, and a modify exactly when it holds one.
C5_CreateIffMissing ==
    [][\A i \in Insts :
        (Calls("save", i) /\ last'.reqs # <<>>)
        => /\ last'.reqs[1].op \in {"add", "modify"}
           /\ last'.reqs[1].op = "add" <=> last'.reqs[1].dn \notin DOMAIN dir]_vars

\* C8: WriteOnce at most once.  A set of a WriteOnce attribute returns when
\* no set of that attribute has returned on the instance before, and raises
\* the policy violation when one has, whatever was called in between.
C8_WriteOnceAtMostOnce ==
    [][\A i \in Insts, a \in WriteOnceAttrs :
        (Calls("set", i) /\ last'.attr = a)
        => IF a \in assigned[i]
           THEN last'.raised = "UNWILLING_TO_PERFORM" /\ objs' = objs
           ELSE last'.raised = "none"]_vars

\* C10: ReadOnly rejects every set.  A set of a ReadOnly attribute raises
\* the policy violation in every state of the instance and leaves the
\* instance, so what get returns for the attribute, as it was.
C10_ReadOnlyRejects ==
    [][\A i \in Insts, a \in ReadOnlyAttrs :
        (Calls("set", i) /\ last'.attr = a)
        => /\ last'.raised = "UNWILLING_TO_PERFORM"
           /\ objs' = objs]_vars

\* A set of object_guid was rejected on an instance that holds the
\* objectGUID the directory assigned.
C10_Witness ==
    \E i \in Insts :
        /\ Called("set", i) /\ last.attr = "object_guid"
        /\ last.raised = "UNWILLING_TO_PERFORM"
        /\ getter(objs[i], "object_guid") # Null
        /\ getter(objs[i], "object_guid") # GuidOf(0)

\* The last call was a save of instance i that returned after it created
\* the entry.
Created(i) ==
    /\ Called("save", i) /\ last.raised = "none"
    /\ last.reqs[1].op = "add"

\* C6 as claimed: a save that directly follows the save that created the
\* user, on the same instance (no local edit, no remote change in between),
\* issues no request at all.
C6_SecondSaveNoRequest ==
    [][\A i \in Insts :
        (Created(i) /\ Calls("save", i)) => last'.reqs = <<>>]_vars

\* C6 as amended: such a second save has an empty change set and issues
\* one modify request with an empty replace list, and no add; the directory
\* and the instance stay as they were.
C6_SecondSaveEmptyModify ==
    [][\A i \in Insts :
        (Created(i) /\ Calls("save", i))
        => /\ Len(last'.reqs) = 1
           /\ last'.reqs[1].op = "modify"
           /\ DOMAIN last'.reqs[1].modlist = {}
           /\ dir' = dir
           /\ Visible(objs'[i]) = Visible(objs[i])]_vars

\* A save returned after it issued a modify request with an empty list,
\* directly after the save of the same instance that created the entry.
C6_Witness ==
    \E i \in Insts :
        /\ Called("save", i) /\ last.raised = "none"
        /\ last.after = [inst |-> i, op |-> "add"]
        /\ Len(last.reqs) = 1
        /\ last.reqs[1].op = "modify"
        /\ DOMAIN last.reqs[1].modlist = {}

\* C7: one request per save.  A save that returns has issued exactly one
\* request, an add or a modify, the entry it names is in the directory, and
\* afterwards the modified flags are cleared and the instance holds the
\* objectGUID of that entry.
C7_OneRequestPerSave ==
    \A i \in Insts :
        (Called("save", i) /\ last.raised = "none")
        => /\ Len(last.reqs) = 1
           /\ last.reqs[1].op \in {"add", "modify"}
           /\ last.reqs[1].dn \in DOMAIN dir
           /\ \A a \in DOMAIN objs[i].store : ~modified(objs[i], a)
           /\ <<getter(objs[i], "object_guid")>> =
                  dir[last.reqs[1].dn]["objectGUID"]

\* A save returned after a modify that replaced an attribute of an entry
\* an earlier save had added.
C7_Witness ==
    \E i \in Insts :
        /\ Called("save", i) /\ last.raised = "none"
        /\ last.reqs[1].op = "modify"
        /\ DOMAIN last.reqs[1].modlist # {}
        /\ nextGuid > 1

\* The case of C2 on instance i: the user's entry exists and the instance
\* holds its objectGUID (it was created and synced by save); given_name is
\* the only attribute flagged modified and holds a name other than the
\* remote one; the remote mail is a value other than the local mail (another
\* actor wrote it); sAMAccountName and userAccountControl are as synced.
C2_Case(i) ==
    /\ objs[i] # NoObj
    /\ getter(objs[i], "distinguished_name") = UserDN
    /\ UserDN \in DOMAIN dir
    /\ <<getter(objs[i], "object_guid")>> = dir[UserDN]["objectGUID"]
    /\ modified(objs[i], "given_name")
    /\ getter(objs[i], "given_name") # Null
    /\ <<getter(objs[i], "given_name")>> # dir[UserDN]["givenName"]
    /\ \A a \in UserAttrs \ {"given_name"} : ~modified(objs[i], a)
    /\ dir[UserDN]["mail"] \notin {<<>>, <<getter(objs[i], "mail")>>}
    /\ \A a \in {"s_am_account_name", "user_account_control"} :
           <<getter(objs[i], a)>> = dir[UserDN][ad_key(a)]

\* C2: selective persist under a concurrent remote actor.  In the case
\* above a save that returns has issued one modify request that replaces
\* givenName by the local name and does not contain mail; afterwards the
\* entry holds the local given_name and the other actor's mail, and the
\* local mail is the remote mail, not flagged modified.
C2_SelectivePersist ==
    [][\A i \in Insts :
        (C2_Case(i) /\ Calls("save", i) /\ last'.raised = "none")
        => /\ Len(last'.reqs) = 1
           /\ last'.reqs[1].op = "modify"
           /\ last'.reqs[1].dn = UserDN
           /\ "givenName" \in DOMAIN last'.reqs[1].modlist
           /\ last'.reqs[1].modlist["givenName"] = getter(objs[i], "given_name")
           /\ "mail" \notin DOMAIN last'.reqs[1].modlist
           /\ dir'[UserDN]["givenName"] = <<getter(objs[i], "given_name")>>
           /\ dir'[UserDN]["mail"] = dir[UserDN]["mail"]
           /\ <<getter(objs'[i], "mail")>> = dir'[UserDN]["mail"]
           /\ ~modified(objs'[i], "mail")]_vars

\* A save returned whose modify request replaced givenName alone and which
\* changed nothing on the instance but mail, taken over from the entry.
C2_Witness ==
    \E i \in Insts :
        /\ Called("save", i) /\ last.raised = "none"
        /\ last.reqs[1].op = "modify"
        /\ DOMAIN last.reqs[1].modlist = {"givenName"}
        /\ last.replaced = {"mail"}
        /\ dir[UserDN]["givenName"] = <<getter(objs[i], "given_name")>>
        /\ dir[UserDN]["mail"] = <<getter(objs[i], "mail")>>

\* C11: remote adoption.  An attribute that holds no local value and is not
\* flagged modified (never set on the instance) while the instance's entry
\* holds a value for it has, after update_from_ad, the entry's value, is not
\* flagged modified and is not in the change set.
C11_RemoteAdoption ==
    [][\A i \in Insts, a \in UserAttrs :
        ( /\ objs[i] # NoObj
          /\ getter(objs[i], a) = Null /\ ~modified(objs[i], a)
          /\ getter(objs[i], "distinguished_name") \in DOMAIN dir
          /\ dir[getter(objs[i], "distinguished_name")][ad_key(a)] # <<>>
          /\ Calls("update_from_ad", i) )
        => /\ <<getter(objs'[i], a)>> =
                  dir[getter(objs[i], "distinguished_name")][ad_key(a)]
           /\ ~modified(objs'[i], a)
           /\ ad_key(a) \notin DOMAIN moddict(objs'[i])]_vars

\* update_from_ad gave a newly constructed instance the objectGUID, the
\* givenName and the mail of its entry, none flagged modified.
C11_Witness ==
    \E i \in Insts :
        /\ Called("update_from_ad", i)
        /\ {"object_guid", "given_name", "mail"} \subseteq last.replaced
        /\ \A a \in {"object_guid", "given_name", "mail"} :
               /\ <<getter(objs[i], a)>> = dir[UserDN][ad_key(a)]
               /\ ~modified(objs[i], a)

\* C12: clean state after save.  Right after a save that returned (no remote
\* change since), no attribute of the instance is flagged modified, every
\* attribute the request carried has on the instance the value the entry
\* holds, and the instance holds the objectGUID the directory assigned.
C12_CleanAfterSave ==
    \A i \in Insts :
        (Called("save", i) /\ last.raised = "none")
        => /\ \A a \in DOMAIN objs[i].store : ~modified(objs[i], a)
           /\ \A k \in DOMAIN last.reqs[1].modlist :
                  Wire(getter(objs[i], AttrOfKey(objs[i].cls, k))) =
                      dir[last.reqs[1].dn][k]
           /\ <<getter(objs[i], "object_guid")>> =
                  dir[last.reqs[1].dn]["objectGUID"]

\* C13: organizational-unit create.  For a Company that holds ou = v and no
\* distinguished name while the directory has no entry OU=v,<root_dn>, save
\* issues one add request for OU=v,<root_dn> whose attribute list holds
\* objectClass with the preset of Company and ou = v.
C13_CompanyCreate ==
    [][\A i \in Insts, v \in CompanyOus :
        ( /\ objs[i] # NoObj /\ objs[i].cls = "Company"
          /\ getter(objs[i], "distinguished_name") = Null
          /\ getter(objs[i], "ou") = v
          /\ ("OU=" \o v \o "," \o root_dn) \notin DOMAIN dir
          /\ Calls("save", i) )
        => /\ Len(last'.reqs) = 1
           /\ last'.reqs[1].op = "add"
           /\ last'.reqs[1].dn = "OU=" \o v \o "," \o root_dn
           /\ {"objectClass", "ou"} \subseteq DOMAIN last'.reqs[1].modlist
           /\ last'.reqs[1].modlist["objectClass"] = preset("Company")["object_class"]
           /\ last'.reqs[1].modlist["ou"] = v]_vars

\* A save of a Company created the entry OU=ops,<root_dn>.
C13_Witness ==
    \E i \in Insts :
        /\ Called("save", i) /\ last.raised = "none"
        /\ objs[i].cls = "Company"
        /\ last.reqs[1].op = "add"
        /\ last.reqs[1].dn = "OU=ops," \o root_dn
        /\ last.reqs[1].dn \in DOMAIN dir
        /\ dir[last.reqs[1].dn]["ou"] = <<"ops">>
        /\ getter(objs[i], "ou") = "ops"

\* C14: construction is policy-checked.  A construction whose fields hold a
\* value for a ReadOnly attribute raises the policy violation and yields no
\* instance: the caller holds what it held before.
C14_ConstructionPolicyChecked ==
    [][\A i \in Insts, f \in ConstructionFields :
        ( /\ \E a \in DOMAIN f : Policy(a) = "ReadOnly"
          /\ Construct(i, CompanyDN, f) )
        => /\ last'.raised = "UNWILLING_TO_PERFORM"
           /\ objs' = objs]_vars

\* C15: construction order.  The preset is applied before the fields the
\* caller (or search) supplies, so after construction every supplied
\* attribute holds the supplied value, the preset attribute included.
C15_PresetBeforeFields ==
    [][\A i \in Insts, f \in ConstructionFields :
        Construct(i, CompanyDN, f)
        => \A a \in DOMAIN f : getter(objs'[i], a) = f[a]]_vars

\* C16: constructed fields are dirty.  Right after construction every
\* attribute the caller supplied is flagged modified, and every attribute
\* neither supplied nor preset is None and not flagged modified.
C16_ConstructedFieldsDirty ==
    [][\A i \in Insts, f \in ConstructionFields :
        Construct(i, CompanyDN, f)
        => \A a \in UserAttrs :
              /\ a \in DOMAIN f => modified(objs'[i], a)
              /\ a \notin DOMAIN f \cup DOMAIN preset("User")
                    => getter(objs'[i], a) = Null /\ ~modified(objs'[i], a)]_vars

\* C17: a User is activated by save.  Right after a save of a User that
\* returned, on the create path or the update path and whatever
\* userAccountControl the entry held before, the instance's
\* user_account_control is the active value and the entry holds it too.
C17_ActivatedBySave ==
    \A i \in Insts :
        (Called("save", i) /\ last.raised = "none" /\ objs[i].cls = "User")
        => /\ getter(objs[i], "user_account_control") = USER_ACCOUNT_CONTROL_ACTIVE
           /\ dir[last.reqs[1].dn]["userAccountControl"] =
                  <<USER_ACCOUNT_CONTROL_ACTIVE>>

\* The attributes callers assign and tests search by.
IdentifyingAttrs(cls) ==
    IF cls = "User" THEN {"s_am_account_name", "given_name", "mail"}
    ELSE {"ou"}

\* The filter terms key=value for the identifying values instance o holds.
MatchingQuery(o) ==
    [k \in {ad_key(a) : a \in {b \in IdentifyingAttrs(o.cls) :
                                  getter(o, b) # Null}} |->
        getter(o, AttrOfKey(o.cls, k))]

\* C18: save / search round trip.  Right after a save that returned, a
\* search from the root whose filter names the identifying values the saving
\* instance holds returns exactly one instance, and that instance has the
\* saving instance's value for every attribute callers assign.
C18_SaveSearchRoundTrip ==
    \A i \in Insts :
        (Called("save", i) /\ last.raised = "none")
        => /\ Cardinality(search(objs[i].cls, dir, root_dn,
                                 MatchingQuery(objs[i]))) = 1
           /\ \A x \in search(objs[i].cls, dir, root_dn, MatchingQuery(objs[i])) :
                  \A a \in IdentifyingAttrs(objs[i].cls) :
                      getter(x, a) = getter(objs[i], a)

\* A save returned after its modify request replaced givenName, and the
\* search by sAMAccountName and that givenName finds the entry.
C18_Witness ==
    \E i \in Insts :
        /\ Called("save", i) /\ last.raised = "none"
        /\ last.reqs[1].op = "modify"
        /\ "givenName" \in DOMAIN last.reqs[1].modlist
        /\ getter(objs[i], "given_name") = last.reqs[1].modlist["givenName"]
        /\ "givenName" \in DOMAIN MatchingQuery(objs[i])
        /\ search(objs[i].cls, dir, root_dn, MatchingQuery(objs[i])) # {}

\* C19: delete removes the remote record.  A delete that returns, called
\* directly after a save that returned on the same instance, leaves no entry
\* under the instance's distinguished name and nothing for a search by the
\* instance's identifying values to find; and while the user has no entry, a
\* save of a newly constructed instance issues an add request for the
\* user's distinguished name, which fails only when the connection does and
\* otherwise creates the entry.
C19_DeleteRemoves ==
    [][\A i \in Insts :
        /\ ( /\ Called("save", i) /\ last.raised = "none"
             /\ Calls("delete", i) /\ last'.raised = "none" )
           => /\ getter(objs'[i], "distinguished_name") \notin DOMAIN dir'
              /\ search(objs'[i].cls, dir', root_dn, MatchingQuery(objs'[i])) = {}
        /\ ( /\ Called("construct", i) /\ UserDN \notin DOMAIN dir
             /\ Calls("save", i) )
           => /\ Len(last'.reqs) = 1
              /\ last'.reqs[1].op = "add"
              /\ last'.reqs[1].dn = UserDN
              /\ last'.raised \in {"none", "SERVER_DOWN"}
              /\ last'.raised = "none" => UserDN \in DOMAIN dir']_vars

\* A delete returned directly after the save that created the user, and
\* the user's entry is gone.
C19_Witness ==
    \E i \in Insts :
        /\ Called("delete", i) /\ last.raised = "none"
        /\ last.after = [inst |-> i, op |-> "add"]
        /\ getter(objs[i], "distinguished_name") = UserDN
        /\ UserDN \notin DOMAIN dir

\* C20: diff exactness.  diff(a, b) holds a record under directory key k
\* exactly when a's and b's values of the attribute of k differ; the record
\* carries both values and both modified flags; diff(a, a) is empty; and the
\* call changes no value and no flag.
C20_DiffExact ==
    [][\A i \in Insts :
        \A b \in DiffOperands(objs[i], dir) :
            Diff(i, b)
            => /\ DOMAIN last'.out =
                      {ad_key(a) : a \in {x \in UserAttrs :
                                             getter(objs[i], x) # getter(b, x)}}
               /\ \A a \in UserAttrs :
                      ad_key(a) \in DOMAIN last'.out
                      => /\ last'.out[ad_key(a)].self.value = getter(objs[i], a)
                         /\ last'.out[ad_key(a)].self.modified = modified(objs[i], a)
                         /\ last'.out[ad_key(a)].other.value = getter(b, a)
                         /\ last'.out[ad_key(a)].other.modified = modified(b, a)
               /\ b = objs[i] => DOMAIN last'.out = {}
               /\ objs' = objs /\ dir' = dir]_vars

\* A diff of a saved instance against the instance search builds from its
\* entry returned one record, for the attribute edited since the save,
\* flagged modified on the caller's side only.
C20_Witness ==
    \E i \in Insts :
        /\ Called("diff", i)
        /\ getter(objs[i], "object_guid") # Null
        /\ DOMAIN last.out = {"givenName"}
        /\ last.out["givenName"].self.value \notin {Null, last.out["givenName"].other.value}
        /\ last.out["givenName"].self.modified
        /\ last.out["givenName"].other.value # Null
        /\ ~last.out["givenName"].other.modified

\* The entry values l hold every value the request sent as v.
Holds(l, v) ==
    {Wire(v)[j] : j \in 1..Len(Wire(v))} \subseteq {l[j] : j \in 1..Len(l)}

\* C21: retry after failure.  A save that directly follows a save of the
\* same instance whose add or modify request was rejected (no local or
\* remote change in between) issues the same kind of request for the same
\* distinguished name, carrying every attribute value the rejected request
\* carried; and when this request is accepted, the entry holds those values.
C21_RetryAfterFailure ==
    [][\A i \in Insts :
        ( /\ Called("save", i) /\ last.raised # "none" /\ last.reqs # <<>>
          /\ Calls("save", i) )
        => /\ Len(last'.reqs) = 1
           /\ last'.reqs[1].op = last.reqs[1].op
           /\ last'.reqs[1].dn = last.reqs[1].dn
           /\ \A k \in DOMAIN last.reqs[1].modlist :
                  /\ k \in DOMAIN last'.reqs[1].modlist
                  /\ last'.reqs[1].modlist[k] = last.reqs[1].modlist[k]
           /\ last'.raised = "none"
                  => \A k \in DOMAIN last.reqs[1].modlist :
                         Holds(dir'[last.reqs[1].dn][k], last.reqs[1].modlist[k])]_vars

\* A save returned after its modify request, directly after a save of the
\* same instance whose modify request was rejected, replaced givenName.
C21_Witness ==
    \E i \in Insts :
        /\ Called("save", i) /\ last.raised = "none"
        /\ last.after = [inst |-> i, op |-> "modify rejected"]
        /\ last.reqs[1].op = "modify"
        /\ "givenName" \in DOMAIN last.reqs[1].modlist
        /\ dir[UserDN]["givenName"] = <<last.reqs[1].modlist["givenName"]>>

\* C22: minimal update.  On the update path (save's search by the
\* distinguished name finds the entry) the request is a modify that replaces key k only
\* if the local value of k is non-null and differs from the entry's value;
\* the value sent is the one the instance held when save was called (for
\* userAccountControl the one save activated it to); and every key of the
\* entry that is not in the request has the same value after save as before.
C22_MinimalUpdate ==
    [][\A i \in Insts :
        ( /\ Calls("save", i)
          /\ last'.reqs # <<>>
          /\ search_st(dir, root_dn, objs[i].cls,
                       [k \in {"distinguishedName"} |-> last'.reqs[1].dn]) # {} )
        => /\ last'.reqs[1].op = "modify"
           /\ \A k \in DOMAIN last'.reqs[1].modlist :
                  /\ last'.reqs[1].modlist[k] # Null
                  /\ Wire(last'.reqs[1].modlist[k]) # dir[last'.reqs[1].dn][k]
                  /\ last'.reqs[1].modlist[k] =
                         getter(IF objs[i].cls = "User"
                                THEN Activated(objs[i]) ELSE objs[i],
                                AttrOfKey(objs[i].cls, k))
           /\ \A k \in AllKeys \ DOMAIN last'.reqs[1].modlist :
                  dir'[last'.reqs[1].dn][k] = dir[last'.reqs[1].dn][k]]_vars

\* A save returned whose modify request replaced mail alone while another
\* actor had rewritten givenName: the entry keeps that givenName and the
\* instance took it over.
C22_Witness ==
    \E i \in Insts :
        /\ Called("save", i) /\ last.raised = "none"
        /\ last.reqs[1].op = "modify"
        /\ DOMAIN last.reqs[1].modlist = {"mail"}
        /\ last.replaced = {"given_name"}
        /\ dir[UserDN]["mail"] = <<last.reqs[1].modlist["mail"]>>
        /\ dir[UserDN]["givenName"] = <<getter(objs[i], "given_name")>>

\* C23: a local clear is never propagated.  When local code has just set a
\* mutable attribute to null on an instance whose entry holds a non-null
\* value for it, update_from_ad leaves the attribute null and not flagged
\* modified; the request of save omits the attribute's key and the entry
\* keeps its value; and when save returns the attribute holds the entry's
\* value again.
C23_LocalClearNotPropagated ==
    [][\A i \in Insts, a \in MutableAttrs :
        ( /\ Called("set", i) /\ last.attr = a /\ last.raised = "none"
          /\ getter(objs[i], a) = Null
          /\ RemoteValue(objs[i], dir, a) # Null )
        => /\ Calls("update_from_ad", i)
               => /\ getter(objs'[i], a) = Null
                  /\ ~modified(objs'[i], a)
           /\ Calls("save", i)
               => /\ \A j \in 1..Len(last'.reqs) :
                         ad_key(a) \notin DOMAIN last'.reqs[j].modlist
                  /\ RemoteValue(objs[i], dir', a) = RemoteValue(objs[i], dir, a)
                  /\ last'.raised = "none"
                         => getter(objs'[i], a) = RemoteValue(objs[i], dir, a)]_vars

====
